---- MODULE Spec2Model ----
(***************************************************************************)
(* Connection-pool registry of the bit.io Go SDK (type BitDotIO):          *)
(* CreatePool / CreatePoolWithMaxConns / GetPool / Connect / ClosePool     *)
(* over the map `pools`, guarded by `lock sync.RWMutex`.                   *)
(*                                                                         *)
(* Every method is modelled statement by statement, one action per         *)
(* statement that touches shared state, so that goroutines interleave      *)
(* exactly where the Go scheduler lets them.  The pgxpool handle is the    *)
(* external collaborator: Acquire fails with "closed pool" exactly on a    *)
(* closed handle, may fail otherwise on an open one, waits while the       *)
(* handle is exhausted; Close rejects later acquires at once and waits     *)
(* for the leased connections to come back.                                *)
(***************************************************************************)
EXTENDS Integers, FiniteSets, Sequences, TLC

\* ---- bounds of the model ----
NumThreads == 2
NumNames == 2
MaxHandles == 2
DefaultMaxConns == 1
MaxReadHolds == 2
NumTokens == 2
MaxConnsTried == 11

Threads == 1..NumThreads
Names == 1..NumNames
Handles == 1..MaxHandles

\* sentinel maxConns of CreatePool: "use the pgxpool default"
SentinelMaxConns == 0
\* maxConns arguments tried by callers of CreatePoolWithMaxConns
MaxConnsArgs == {SentinelMaxConns, 1}

\* a missing map entry / nil *pgxpool.Pool
NoPool == 0
\* rw.w (the writers' mutex inside sync.RWMutex) is free
NoThread == 0

\* ---- error values returned by the methods ----
NoErr == "nil"
ErrExists == "pool already exists for db"
ErrVerify == "found an existing pool for db and unable to verify closed state"
ErrCreate == "unable to create pool for db"
ErrNoPool == "pool does not exist for db"
ErrConnNoPool == "unable to acquire a connection for db: pool does not exist for db"
ErrConnAcquire == "unable to acquire a connection for db: acquire failed"
ErrNoOpen == "no open pool found for db"

\* ---- outcomes of pgxpool.Pool.Acquire ----
AcqOK == "acquired"
AcqClosed == "closed pool"
AcqOther == "other error"
NotProbed == "not probed"

\* ---- the contexts a call can hand to pool.Acquire ----
\* context.Background(): never done
CtxBackground == "background"
\* the caller's ctx, not done when the call starts (it may expire during a wait)
CtxLive == "live"
\* the caller's ctx, already cancelled when the call starts
CtxDone == "done"
\* the contexts callers pass to CreatePool, CreatePoolWithMaxConns and Connect
CallerCtxs == {CtxLive, CtxDone}

VARIABLES
  pools,     \* b.pools : database name -> handle, NoPool when the key is absent
  hs,        \* the pgxpool handles pgxpool.New has produced: db, closed, leased, cap,
             \* out: the connections handed to callers (Connect, or the pool API),
             \* and direct: whether a caller called Close() on the handle itself
             \* ("no", "first": while it was open, "after": when it was closed already)
  created,   \* number of handles pgxpool.New has produced
  lock,      \* b.lock : w = holder of the writers' mutex, active = read holds
  pc,        \* position of each goroutine inside the method it runs
  op,        \* the method each goroutine runs
  dbName,    \* argument dbName of the running call
  maxConns,  \* argument maxConns of the running call
  ctx,       \* argument ctx of the running call (GetPool and ClosePool take none)
  found,     \* local `pool` read from the map (CreatePool probe, GetPool, ClosePool)
  probe,     \* result of the probe Acquire in CreatePoolWithMaxConns
  newh,      \* local `pool` returned by pgxpool.New
  ret,       \* values the call returns: err, pool, conn
  rheld,     \* read holds the running call has taken and not given back
  nNew,      \* number of pgxpool.New calls the running call has made
  nAcq,      \* number of pool.Acquire calls the running Connect has made
  wasClosed, \* history: the handle ClosePool found was already closed
  exp,       \* history: the handle stored under the name when the lookup was issued,
             \* NoPool once a ClosePool or a replacing create for the name got through
  snap,      \* history: pools as the running call found it at its existence check
  armed,     \* history: the lookup or close was issued after ClosePool removed the key,
             \* no create since
  raced,     \* history: the create was issued for an absent key while another create for it ran
  wins,      \* history per name: creates that succeeded since the key was last absent or
             \* its handle was last closed directly
  gone,      \* history per name: ClosePool removed the key and no create succeeded since
  args,      \* inputs of the pure function under check (getConnString)
  result     \* its output, once applied

vars == <<pools, hs, created, lock, pc, op, dbName, maxConns, ctx, found, probe, newh,
          ret, rheld, nNew, nAcq, wasClosed, exp, snap, armed, raced, wins, gone,
          args, result>>

\* the frame of a call: arguments, locals, results and its history flags
frame == <<op, dbName, maxConns, ctx, found, probe, newh, ret, nNew, nAcq, wasClosed,
           exp, snap, armed, raced>>

\* the variables of the pure-function checks, which the registry never touches
pure == <<args, result>>

\* the variables of the registry and of the calls on it
registry == <<pools, hs, created, lock, pc, op, dbName, maxConns, ctx, found, probe, newh,
              ret, rheld, nNew, nAcq, wasClosed, exp, snap, armed, raced, wins, gone>>

NoRet == [err |-> NoErr, pool |-> NoPool, conn |-> NoPool]
NoSnap == [n \in Names |-> NoPool]
\* a handle slot pgxpool.New has not filled yet
NoHandle == [db |-> 0, closed |-> FALSE, leased |-> 0, out |-> 0, cap |-> 0, direct |-> "no"]

\* no pure function is under check / it has not been applied
NoArgs == <<>>
NoResult == <<>>

\* no goroutine is inside a method, the RWMutex is unlocked
InitCalls ==
  /\ lock = [w |-> NoThread, active |-> 0]
  /\ pc = [t \in Threads |-> "idle"]
  /\ op = [t \in Threads |-> "none"]
  /\ dbName = [t \in Threads |-> 1]
  /\ maxConns = [t \in Threads |-> SentinelMaxConns]
  /\ ctx = [t \in Threads |-> CtxBackground]
  /\ nAcq = [t \in Threads |-> 0]
  /\ wasClosed = [t \in Threads |-> FALSE]
  /\ exp = [t \in Threads |-> NoPool]
  /\ found = [t \in Threads |-> NoPool]
  /\ probe = [t \in Threads |-> NotProbed]
  /\ newh = [t \in Threads |-> NoPool]
  /\ ret = [t \in Threads |-> NoRet]
  /\ rheld = [t \in Threads |-> 0]
  /\ nNew = [t \in Threads |-> 0]
  /\ snap = [t \in Threads |-> NoSnap]
  /\ armed = [t \in Threads |-> FALSE]
  /\ raced = [t \in Threads |-> FALSE]
  /\ wins = [n \in Names |-> 0]
  /\ gone = [n \in Names |-> FALSE]

\* NewBitDotIO: an empty map, an unlocked RWMutex, no goroutine inside a method
Init ==
  /\ pools = [n \in Names |-> NoPool]
  /\ hs = [h \in Handles |-> NoHandle]
  /\ created = 0
  /\ InitCalls
  /\ args = NoArgs
  /\ result = NoResult

\* a goroutine can start a method when it is not inside one
CanCall(t) == pc[t] = "idle"

InProgress(t) == ~CanCall(t)

\* the handles that exist
Live == 1..created

\* u runs a CreatePool for key n, which is absent
CreatesAbsent(u, n) ==
  /\ pools[n] = NoPool
  /\ InProgress(u) /\ op[u] = "CreatePool" /\ dbName[u] = n

\* start of a call: the method and its arguments
StartCall(t, method, c, n, m, first) ==
  /\ CanCall(t)
  /\ pc' = [pc EXCEPT ![t] = first]
  /\ op' = [op EXCEPT ![t] = method]
  /\ dbName' = [dbName EXCEPT ![t] = n]
  /\ maxConns' = [maxConns EXCEPT ![t] = m]
  /\ armed' = [armed EXCEPT ![t] = method \in {"GetPool", "Connect", "ClosePool"} /\ gone[n]]
  /\ raced' = [u \in Threads |->
                 IF method # "CreatePool" THEN raced[u]
                 ELSE IF u = t THEN \E v \in Threads \ {t} : CreatesAbsent(v, n)
                 ELSE raced[u] \/ CreatesAbsent(u, n)]
  /\ ctx' = [ctx EXCEPT ![t] = c]
  /\ exp' = [exp EXCEPT ![t] = IF method = "GetPool" THEN pools[n] ELSE NoPool]
  /\ UNCHANGED <<found, probe, newh, ret, rheld, nNew, nAcq, wasClosed, snap>>
  /\ UNCHANGED <<pools, hs, created, lock, wins, gone>>
  /\ UNCHANGED pure

\* the call of t is over: its frame is gone
FrameGone(t) ==
  /\ op' = [op EXCEPT ![t] = "none"]
  /\ dbName' = [dbName EXCEPT ![t] = 1]
  /\ maxConns' = [maxConns EXCEPT ![t] = SentinelMaxConns]
  /\ ctx' = [ctx EXCEPT ![t] = CtxBackground]
  /\ nAcq' = [nAcq EXCEPT ![t] = 0]
  /\ wasClosed' = [wasClosed EXCEPT ![t] = FALSE]
  /\ exp' = [exp EXCEPT ![t] = NoPool]
  /\ found' = [found EXCEPT ![t] = NoPool]
  /\ probe' = [probe EXCEPT ![t] = NotProbed]
  /\ newh' = [newh EXCEPT ![t] = NoPool]
  /\ ret' = [ret EXCEPT ![t] = NoRet]
  /\ nNew' = [nNew EXCEPT ![t] = 0]
  /\ snap' = [snap EXCEPT ![t] = NoSnap]
  /\ armed' = [armed EXCEPT ![t] = FALSE]
  /\ raced' = [raced EXCEPT ![t] = FALSE]

\* ---- getConnString ----
\* A connection string is the sequence of its space-separated `key=value`
\* parameters; a value printed with %d is the sequence of its characters.

userAgent == "go-bitdotio-sdk0.0.0b"
dbHost == "db.bit.io"
dbPort == "5432"
pgSSLMode == "require"
maxConnIdleTime == "290s"
poolMinConns == 0

\* the access token of the BitDotIO the registry model runs on
accessToken == 1

Digits == <<"0", "1", "2", "3", "4", "5", "6", "7", "8", "9">>

RECURSIVE FormatNat(_)
\* the decimal digits of k >= 0
FormatNat(k) ==
  IF k < 10 THEN <<Digits[k + 1]>> ELSE FormatNat(k \div 10) \o <<Digits[(k % 10) + 1]>>

\* fmt's %d
FormatInt(i) == IF i < 0 THEN <<"-">> \o FormatNat(-i) ELSE FormatNat(i)

\* the value of digit character c
DigitValue(c) == (CHOOSE d \in DOMAIN Digits : Digits[d] = c) - 1

RECURSIVE ParseNat(_)
ParseNat(cs) ==
  IF Len(cs) = 1 THEN DigitValue(cs[1])
  ELSE 10 * ParseNat(SubSeq(cs, 1, Len(cs) - 1)) + DigitValue(cs[Len(cs)])

\* strconv.ParseInt of a value pgxpool.ParseConfig reads
ParseInt(cs) == IF cs[1] = "-" THEN -ParseNat(Tail(cs)) ELSE ParseNat(cs)

Param(k, v) == [key |-> k, val |-> v]

\* variant: pool_max_conns is appended whatever maxConns is
getConnString_AlwaysMaxConns(tok, n, m) ==
  <<Param("user", userAgent), Param("password", tok), Param("host", dbHost),
    Param("port", dbPort), Param("dbname", n), Param("sslmode", pgSSLMode),
    Param("pool_min_conns", FormatInt(poolMinConns)),
    Param("pool_max_conn_idle_time", maxConnIdleTime),
    Param("pool_max_conns", FormatInt(m))>>

\* getConnString(dbName, maxConns) on a BitDotIO whose accessToken is tok
getConnString(tok, n, m) ==
  <<Param("user", userAgent), Param("password", tok), Param("host", dbHost),
    Param("port", dbPort), Param("dbname", n), Param("sslmode", pgSSLMode),
    Param("pool_min_conns", FormatInt(poolMinConns)),
    Param("pool_max_conn_idle_time", maxConnIdleTime)>>
  \o (IF m # SentinelMaxConns THEN <<Param("pool_max_conns", FormatInt(m))>> ELSE <<>>)

\* the values connection string cs gives for key k, in order
RECURSIVE ParamValues(_, _)
ParamValues(cs, k) ==
  IF cs = <<>> THEN <<>>
  ELSE (IF Head(cs).key = k THEN <<Head(cs).val>> ELSE <<>>) \o ParamValues(Tail(cs), k)

\* ---- the pgxpool handle (external pooling mechanism), as the methods use it ----

\* the size pgxpool gives a pool made from connection string cs: its
\* pool_max_conns, or the pgxpool default when the parameter is absent
PoolCap(cs) ==
  LET vs == ParamValues(cs, "pool_max_conns")
  IN IF vs = <<>> THEN DefaultMaxConns ELSE ParseInt(vs[Len(vs)])

\* what pool.Acquire(c) can return on handle h.  A context that is done makes
\* it fail before the handle is looked at.  Otherwise a closed handle answers
\* "closed pool"; an open one hands out a connection when one is free, or fails
\* to connect; an exhausted open handle makes the caller wait, and only a
\* context that can expire ends that wait (context.Background() cannot).
AcquireOutcomes(h, c) ==
  IF c = CtxDone THEN {AcqOther}
  ELSE IF hs[h].closed
    THEN {AcqClosed} \cup (IF c = CtxLive THEN {AcqOther} ELSE {})
    ELSE IF hs[h].leased < hs[h].cap
           THEN {AcqOK, AcqOther}
           ELSE IF c = CtxLive THEN {AcqOther} ELSE {}

\* a connection is leased from h
Lease(h) == [hs EXCEPT ![h].leased = @ + 1]

\* variant: the connection is kept
Unlease_Forgotten(h) == hs

\* conn.Release(): the connection goes back to h
Unlease(h) == [hs EXCEPT ![h].leased = @ - 1]

\* a connection is leased from h and handed to a caller
LeaseToCaller(h) == [hs EXCEPT ![h].leased = @ + 1, ![h].out = @ + 1]

\* conn.Release() by the caller it was handed to
ReleaseByCaller(h) == [hs EXCEPT ![h].leased = @ - 1, ![h].out = @ - 1]

\* variant: Close also tears down the connections callers still hold
PoolClose_DropLeases(h) == [hs EXCEPT ![h].closed = TRUE, ![h].leased = 0]

\* variant: closing one handle closes them all
PoolClose_All(h) == [k \in Handles |-> [hs[k] EXCEPT !.closed = TRUE]]

\* pool.Close(), first half: later acquires are rejected; leased connections stay
PoolClose(h) == [hs EXCEPT ![h].closed = TRUE]

\* pool.Close(), second half: returns once every leased connection is back
PoolCloseReturns(h) == hs[h].leased = 0

\* pgxpool.New produced handle h for database n with maxConns m
PoolNew(h, n, m) ==
  [hs EXCEPT ![h] = [db |-> n, closed |-> FALSE, leased |-> 0, out |-> 0,
                     cap |-> PoolCap(getConnString(accessToken, n, m)),
                     direct |-> "no"]]

\* ---- sync.RWMutex, as b.lock is used ----

\* variant: writers do not exclude each other
WMutexFree_Always == TRUE

\* Lock() takes the writers' mutex rw.w and announces the writer
WMutexFree == lock.w = NoThread

\* variant: the writer does not wait for the readers to leave
WriterMayEnter_IgnoreReaders(t) == lock.w = t

\* Lock() returns once the read holds taken before the announcement are gone
WriterMayEnter(t) == lock.w = t /\ lock.active = 0

\* RLock() returns at once unless a writer has announced itself
RLockPasses == lock.w = NoThread

\* goroutines asleep in RLock(), woken by the writer's Unlock()
BlockedReaders == {u \in Threads : pc[u] \in {"gp_rwait", "gp_dwait"}}

\* where GetPool's caller continues: Connect goes on to line 178
AfterGetPool(u) == IF op[u] = "Connect" THEN "co_got" ELSE "ret"

\* Lock(), step 1 (b.lock.Lock() of CreatePoolWithMaxConns and ClosePool)
Lock_Announce(t) ==
  /\ pc[t] = "lock"
  /\ WMutexFree
  /\ lock' = [lock EXCEPT !.w = t]
  /\ pc' = [pc EXCEPT ![t] = "wait"]
  /\ UNCHANGED <<pools, hs, created, rheld, wins, gone>>
  /\ UNCHANGED pure
  /\ UNCHANGED frame

\* Lock(), step 2: the critical section is entered
Lock_Enter(t) ==
  /\ pc[t] = "wait"
  /\ WriterMayEnter(t)
  /\ pc' = [pc EXCEPT ![t] = IF op[t] = "CreatePool" THEN "cp_check" ELSE "cl_check"]
  /\ UNCHANGED <<pools, hs, created, lock, rheld, wins, gone>>
  /\ UNCHANGED pure
  /\ UNCHANGED frame

\* defer b.lock.Unlock(), then the method returns: the readers that went to
\* sleep while the writer was announced all hold the lock afterwards
Unlock(t) ==
  /\ pc[t] = "unlock"
  /\ lock' = [w |-> NoThread, active |-> lock.active + Cardinality(BlockedReaders)]
  /\ pc' = [u \in Threads |->
              IF u = t THEN "idle"
              ELSE IF pc[u] = "gp_rwait" THEN "gp_lookup"
              ELSE IF pc[u] = "gp_dwait" THEN AfterGetPool(u)
              ELSE pc[u]]
  /\ rheld' = [u \in Threads |-> IF u \in BlockedReaders THEN rheld[u] + 1 ELSE rheld[u]]
  /\ FrameGone(t)
  /\ UNCHANGED <<pools, hs, created, wins, gone>>
  /\ UNCHANGED pure

\* ---- CreatePool / CreatePoolWithMaxConns ----

CreatePoolWithMaxConns(t, c, n, m) == StartCall(t, "CreatePool", c, n, m, "lock")

\* CreatePool is CreatePoolWithMaxConns with the sentinel 0
CreatePool(t, c, n) == CreatePoolWithMaxConns(t, c, n, SentinelMaxConns)

\* variant: the existence check is skipped, every call goes on to pgxpool.New
AfterCheck_NoProbe(e) == "cp_new"

\* line 134: where the `if pool, ok := b.pools[dbName]; ok` sends the call
AfterCheck(e) == IF e # NoPool THEN "cp_probe" ELSE "cp_new"

\* line 134: if pool, ok := b.pools[dbName]; ok
CP_Check(t) ==
  /\ pc[t] = "cp_check"
  /\ snap' = [snap EXCEPT ![t] = pools]
  /\ found' = [found EXCEPT ![t] = pools[dbName[t]]]
  /\ pc' = [pc EXCEPT ![t] = AfterCheck(pools[dbName[t]])]
  /\ UNCHANGED <<pools, hs, created, lock, rheld, wins, gone>>
  /\ UNCHANGED pure
  /\ UNCHANGED <<op, dbName, maxConns, ctx, nAcq, wasClosed, exp, probe, newh, ret, nNew, armed, raced>>

\* variant: every probe error is taken for "closed pool"
ProbeSaysClosed_AnyError(o) == o # AcqOK

\* lines 138-143: the branch on the probe's err; TRUE when the call goes on to
\* pgxpool.New
ProbeSaysClosed(o) == o = AcqClosed

\* variant: the probe is made with the caller's ctx
ProbeCtx_Caller(t) == ctx[t]

\* line 137: the context of the probe is context.Background(), not the caller's
ProbeCtx(t) == CtxBackground

\* lines 137-143: conn, err := pool.Acquire(context.Background()) and the branch on err
CP_Probe(t) ==
  /\ pc[t] = "cp_probe"
  /\ \E o \in AcquireOutcomes(found[t], ProbeCtx(t)) :
       /\ probe' = [probe EXCEPT ![t] = o]
       /\ IF o = AcqOK
            THEN /\ hs' = Lease(found[t])
                 /\ pc' = [pc EXCEPT ![t] = "cp_release"]
                 /\ UNCHANGED ret
            ELSE IF ProbeSaysClosed(o)
              THEN /\ pc' = [pc EXCEPT ![t] = "cp_new"]
                   /\ UNCHANGED <<hs, ret>>
              ELSE /\ ret' = [ret EXCEPT ![t] = [NoRet EXCEPT !.err = ErrVerify]]
                   /\ pc' = [pc EXCEPT ![t] = "unlock"]
                   /\ UNCHANGED hs
  /\ UNCHANGED <<pools, created, lock, rheld, wins, gone>>
  /\ UNCHANGED pure
  /\ UNCHANGED <<op, dbName, maxConns, ctx, nAcq, wasClosed, exp, found, newh, nNew, snap, armed, raced>>

\* lines 139-140: conn.Release(); return "pool already exists"
CP_Release(t) ==
  /\ pc[t] = "cp_release"
  /\ hs' = Unlease(found[t])
  /\ ret' = [ret EXCEPT ![t] = [NoRet EXCEPT !.err = ErrExists]]
  /\ pc' = [pc EXCEPT ![t] = "unlock"]
  /\ UNCHANGED <<pools, created, lock, rheld, wins, gone>>
  /\ UNCHANGED pure
  /\ UNCHANGED <<op, dbName, maxConns, ctx, nAcq, wasClosed, exp, found, probe, newh, nNew, snap, armed, raced>>

\* variant: the establishment error is dropped
EstablishFailed_Swallowed == NoRet

\* lines 150-152: what the call returns when pgxpool.New fails
EstablishFailed == [NoRet EXCEPT !.err = ErrCreate]

\* lines 149-152: pool, err := pgxpool.New(ctx, connString); the error return
CP_New(t) ==
  /\ pc[t] = "cp_new"
  /\ nNew' = [nNew EXCEPT ![t] = @ + 1]
  /\ \/ /\ created < MaxHandles
        /\ created' = created + 1
        /\ hs' = PoolNew(created + 1, dbName[t], maxConns[t])
        /\ newh' = [newh EXCEPT ![t] = created + 1]
        /\ pc' = [pc EXCEPT ![t] = "cp_store"]
        /\ UNCHANGED ret
     \/ /\ ret' = [ret EXCEPT ![t] = EstablishFailed]
        /\ pc' = [pc EXCEPT ![t] = "unlock"]
        /\ UNCHANGED <<created, hs, newh>>
  /\ UNCHANGED <<pools, lock, rheld, wins, gone>>
  /\ UNCHANGED pure
  /\ UNCHANGED <<op, dbName, maxConns, ctx, nAcq, wasClosed, exp, found, probe, snap, armed, raced>>

\* variant: an entry that is already there is kept
StorePool_KeepOld(n, h) == IF pools[n] # NoPool THEN pools ELSE [pools EXCEPT ![n] = h]

\* the map after line 153: b.pools[dbName] = pool
StorePool(n, h) == [pools EXCEPT ![n] = h]

\* lines 153-154: b.pools[dbName] = pool; return pool, nil
CP_Store(t) ==
  /\ pc[t] = "cp_store"
  /\ pools' = StorePool(dbName[t], newh[t])
  /\ ret' = [ret EXCEPT ![t] = [NoRet EXCEPT !.pool = newh[t]]]
  /\ pc' = [pc EXCEPT ![t] = "unlock"]
  /\ wins' = [wins EXCEPT ![dbName[t]] = @ + 1]
  /\ gone' = [gone EXCEPT ![dbName[t]] = FALSE]
  /\ armed' = [u \in Threads |-> armed[u] /\ dbName[u] # dbName[t]]
  /\ exp' = [u \in Threads |-> IF dbName[u] = dbName[t] THEN NoPool ELSE exp[u]]
  /\ UNCHANGED <<hs, created, lock, rheld>>
  /\ UNCHANGED pure
  /\ UNCHANGED <<op, dbName, maxConns, ctx, nAcq, wasClosed, found, probe, newh, nNew, snap, raced>>

\* ---- GetPool / Connect ----

\* the holds a lookup leaves behind never come back, so the number of lookups
\* the model starts is capped
ReadBudget == lock.active < MaxReadHolds

GetPool(t, n) ==
  /\ ReadBudget
  /\ StartCall(t, "GetPool", CtxBackground, n, SentinelMaxConns, "gp_rlock")

\* Connect starts with pool, err := b.GetPool(dbName)
Connect(t, c, n) ==
  /\ ReadBudget
  /\ StartCall(t, "Connect", c, n, SentinelMaxConns, "gp_rlock")

\* line 167: b.lock.RLock()
GP_RLock(t) ==
  /\ pc[t] = "gp_rlock"
  /\ IF RLockPasses
       THEN /\ lock' = [lock EXCEPT !.active = @ + 1]
            /\ rheld' = [rheld EXCEPT ![t] = @ + 1]
            /\ pc' = [pc EXCEPT ![t] = "gp_lookup"]
       ELSE /\ pc' = [pc EXCEPT ![t] = "gp_rwait"]
            /\ UNCHANGED <<lock, rheld>>
  /\ UNCHANGED <<pools, hs, created, wins, gone>>
  /\ UNCHANGED pure
  /\ UNCHANGED frame

\* variant: no lookup finds the entry
LookupResult_Missing(e) == [NoRet EXCEPT !.err = ErrNoPool]

\* what GetPool returns for the map entry e
LookupResult(e) ==
  IF e # NoPool THEN [NoRet EXCEPT !.pool = e] ELSE [NoRet EXCEPT !.err = ErrNoPool]

\* lines 169-172: the map lookup and the value GetPool will return
GP_Lookup(t) ==
  /\ pc[t] = "gp_lookup"
  /\ found' = [found EXCEPT ![t] = pools[dbName[t]]]
  /\ ret' = [ret EXCEPT ![t] = LookupResult(pools[dbName[t]])]
  /\ pc' = [pc EXCEPT ![t] = "gp_defer"]
  /\ UNCHANGED <<pools, hs, created, lock, rheld, wins, gone>>
  /\ UNCHANGED pure
  /\ UNCHANGED <<op, dbName, maxConns, ctx, nAcq, wasClosed, exp, probe, newh, nNew, snap, armed, raced>>

\* line 168: defer b.lock.RLock() runs when GetPool returns: a second read
\* hold is taken and none is given back
GP_DeferRLock(t) ==
  /\ pc[t] = "gp_defer"
  /\ IF RLockPasses
       THEN /\ lock' = [lock EXCEPT !.active = @ + 1]
            /\ rheld' = [rheld EXCEPT ![t] = @ + 1]
            /\ pc' = [pc EXCEPT ![t] = AfterGetPool(t)]
       ELSE /\ pc' = [pc EXCEPT ![t] = "gp_dwait"]
            /\ UNCHANGED <<lock, rheld>>
  /\ UNCHANGED <<pools, hs, created, wins, gone>>
  /\ UNCHANGED pure
  /\ UNCHANGED frame

\* variant: Connect acquires with a context of its own
ConnectCtx_Background(t) == CtxBackground

\* line 181: the context of pool.Acquire(ctx) is the caller's
ConnectCtx(t) == ctx[t]

\* lines 178-185: wrap GetPool's error, or conn, err := pool.Acquire(ctx)
CO_Acquire(t) ==
  /\ pc[t] = "co_got"
  /\ IF ret[t].err # NoErr
       THEN /\ ret' = [ret EXCEPT ![t] = [NoRet EXCEPT !.err = ErrConnNoPool]]
            /\ UNCHANGED hs
            /\ UNCHANGED nAcq
       ELSE /\ nAcq' = [nAcq EXCEPT ![t] = @ + 1]
            /\ \E o \in AcquireOutcomes(found[t], ConnectCtx(t)) :
                 IF o = AcqOK
                   THEN /\ hs' = LeaseToCaller(found[t])
                        /\ ret' = [ret EXCEPT ![t] = [NoRet EXCEPT !.conn = found[t]]]
                   ELSE /\ ret' = [ret EXCEPT ![t] = [NoRet EXCEPT !.err = ErrConnAcquire]]
                        /\ UNCHANGED hs
  /\ pc' = [pc EXCEPT ![t] = "ret"]
  /\ UNCHANGED <<pools, created, lock, rheld, wins, gone>>
  /\ UNCHANGED pure
  /\ UNCHANGED <<op, dbName, maxConns, ctx, wasClosed, exp, found, probe, newh, nNew, snap, armed, raced>>

\* GetPool or Connect returns to its caller
Return(t) ==
  /\ pc[t] = "ret"
  /\ pc' = [pc EXCEPT ![t] = "idle"]
  /\ rheld' = [rheld EXCEPT ![t] = 0]
  /\ FrameGone(t)
  /\ UNCHANGED <<pools, hs, created, lock, wins, gone>>
  /\ UNCHANGED pure

\* ---- ClosePool ----

ClosePool(t, n) == StartCall(t, "ClosePool", CtxBackground, n, SentinelMaxConns, "lock")

\* variant: an entry whose handle is closed already counts as absent
ClosePresent_OnlyOpen(e) == e # NoPool /\ ~hs[e].closed

\* line 193: the `ok` of `if pool, ok := b.pools[dbName]; ok`
ClosePresent(e) == e # NoPool

\* line 193 and line 198: the lookup, and the error when the key is absent
CL_Check(t) ==
  /\ pc[t] = "cl_check"
  /\ snap' = [snap EXCEPT ![t] = pools]
  /\ found' = [found EXCEPT ![t] = pools[dbName[t]]]
  /\ IF ClosePresent(pools[dbName[t]])
       THEN /\ pc' = [pc EXCEPT ![t] = "cl_close"]
            /\ UNCHANGED ret
       ELSE /\ pc' = [pc EXCEPT ![t] = "unlock"]
            /\ ret' = [ret EXCEPT ![t] = [NoRet EXCEPT !.err = ErrNoOpen]]
  /\ wasClosed' = [wasClosed EXCEPT ![t] =
                     pools[dbName[t]] # NoPool /\ hs[pools[dbName[t]]].closed]
  /\ UNCHANGED <<pools, hs, created, lock, rheld, wins, gone>>
  /\ UNCHANGED pure
  /\ UNCHANGED <<op, dbName, maxConns, ctx, nAcq, exp, probe, newh, nNew, armed, raced>>

\* line 194: pool.Close() is entered, the handle rejects acquires from now on
CL_Close(t) ==
  /\ pc[t] = "cl_close"
  /\ hs' = PoolClose(found[t])
  /\ pc' = [pc EXCEPT ![t] = "cl_closewait"]
  /\ UNCHANGED <<pools, created, lock, rheld, wins, gone>>
  /\ UNCHANGED pure
  /\ UNCHANGED frame

\* line 194: pool.Close() returns
CL_CloseWait(t) ==
  /\ pc[t] = "cl_closewait"
  /\ PoolCloseReturns(found[t])
  /\ pc' = [pc EXCEPT ![t] = "cl_delete"]
  /\ UNCHANGED <<pools, hs, created, lock, rheld, wins, gone>>
  /\ UNCHANGED pure
  /\ UNCHANGED frame

\* variant: the entry is left in the map
DeletePool_Noop(n) == pools

\* variant: the whole map is emptied
DeletePool_All(n) == [k \in Names |-> NoPool]

\* the map after line 195: delete(b.pools, dbName)
DeletePool(n) == [pools EXCEPT ![n] = NoPool]

\* lines 195-196: delete(b.pools, dbName); return nil
CL_Delete(t) ==
  /\ pc[t] = "cl_delete"
  /\ pools' = DeletePool(dbName[t])
  /\ ret' = [ret EXCEPT ![t] = NoRet]
  /\ pc' = [pc EXCEPT ![t] = "unlock"]
  /\ wins' = [wins EXCEPT ![dbName[t]] = 0]
  /\ gone' = [gone EXCEPT ![dbName[t]] = TRUE]
  /\ exp' = [u \in Threads |-> IF dbName[u] = dbName[t] THEN NoPool ELSE exp[u]]
  /\ UNCHANGED <<hs, created, lock, rheld>>
  /\ UNCHANGED pure
  /\ UNCHANGED <<op, dbName, maxConns, ctx, nAcq, wasClosed, found, probe, newh, nNew, snap, armed, raced>>

\* ---- callers using a handle directly (the pool API) ----

\* callers have h: CreatePoolWithMaxConns has returned it
Escaped(h) ==
  /\ h \in Live
  /\ \A t \in Threads : ~(pc[t] \in {"cp_store", "unlock"} /\ newh[t] = h)

\* a caller closes the handle itself, not through ClosePool: pool.Close() on an
\* open handle closes it, on a closed one it does nothing
ExternalClose(h) ==
  /\ Escaped(h)
  /\ hs[h].direct = "no"
  /\ hs' = [PoolClose(h) EXCEPT ![h].direct = IF hs[h].closed THEN "after" ELSE "first"]
  /\ wins' = IF hs[h].closed THEN wins ELSE [wins EXCEPT ![hs[h].db] = 0]
  /\ UNCHANGED gone
  /\ UNCHANGED <<pools, created, lock, pc, rheld>>
  /\ UNCHANGED pure
  /\ UNCHANGED frame

\* a caller acquires a connection from the handle itself
DirectAcquire(h) ==
  /\ Escaped(h)
  /\ AcqOK \in AcquireOutcomes(h, CtxLive)
  /\ hs' = LeaseToCaller(h)
  /\ UNCHANGED <<pools, created, lock, pc, rheld, wins, gone>>
  /\ UNCHANGED pure
  /\ UNCHANGED frame

\* the connections of h that callers hold (the probe's own one is not theirs)
CallerLeases(h) ==
  hs[h].leased - Cardinality({t \in Threads : pc[t] = "cp_release" /\ found[t] = h})

\* conn.Release() by a caller holding a leased connection; a closed handle takes it too
Release(h) ==
  /\ h \in Live
  /\ CallerLeases(h) > 0
  /\ hs' = ReleaseByCaller(h)
  /\ UNCHANGED <<pools, created, lock, pc, rheld, wins, gone>>
  /\ UNCHANGED pure
  /\ UNCHANGED frame

Next ==
  \/ \E t \in Threads, c \in CallerCtxs, n \in Names : CreatePool(t, c, n)
  \/ \E t \in Threads, c \in CallerCtxs, n \in Names, m \in MaxConnsArgs :
       CreatePoolWithMaxConns(t, c, n, m)
  \/ \E t \in Threads, n \in Names : GetPool(t, n)
  \/ \E t \in Threads, c \in CallerCtxs, n \in Names : Connect(t, c, n)
  \/ \E t \in Threads, n \in Names : ClosePool(t, n)
  \/ \E t \in Threads : Lock_Announce(t)
  \/ \E t \in Threads : Lock_Enter(t)
  \/ \E t \in Threads : Unlock(t)
  \/ \E t \in Threads : CP_Check(t)
  \/ \E t \in Threads : CP_Probe(t)
  \/ \E t \in Threads : CP_Release(t)
  \/ \E t \in Threads : CP_New(t)
  \/ \E t \in Threads : CP_Store(t)
  \/ \E t \in Threads : GP_RLock(t)
  \/ \E t \in Threads : GP_Lookup(t)
  \/ \E t \in Threads : GP_DeferRLock(t)
  \/ \E t \in Threads : CO_Acquire(t)
  \/ \E t \in Threads : Return(t)
  \/ \E t \in Threads : CL_Check(t)
  \/ \E t \in Threads : CL_Close(t)
  \/ \E t \in Threads : CL_CloseWait(t)
  \/ \E t \in Threads : CL_Delete(t)
  \/ \E h \in Handles : ExternalClose(h)
  \/ \E h \in Handles : DirectAcquire(h)
  \/ \E h \in Handles : Release(h)

Spec == Init /\ [][Next]_vars

\* ---- getConnString on its own: every input, on an empty and a filled registry ----

Tokens == 1..NumTokens

\* maxConns is an int32: negative values, the sentinel, one and two digit values
MaxConnsInputs == -1..MaxConnsTried

\* the registry holds handle 1, open, under name 1
InitOnePool ==
  /\ pools = [n \in Names |-> IF n = 1 THEN 1 ELSE NoPool]
  /\ hs = [h \in Handles |->
            IF h = 1 THEN [NoHandle EXCEPT !.db = 1, !.cap = DefaultMaxConns] ELSE NoHandle]
  /\ created = 1

ConnInit ==
  /\ \/ /\ pools = [n \in Names |-> NoPool]
        /\ hs = [h \in Handles |-> NoHandle]
        /\ created = 0
     \/ InitOnePool
  /\ InitCalls
  /\ args \in [tok : Tokens, dbName : Names, maxConns : MaxConnsInputs]
  /\ result = NoResult

\* line 149: the string CreatePoolWithMaxConns(ctx, dbName, maxConns) hands to pgxpool.New
ConnStringOfCreatePoolWithMaxConns ==
  /\ result = NoResult
  /\ result' = [fn |-> "CreatePoolWithMaxConns",
                cs |-> getConnString(args.tok, args.dbName, args.maxConns)]
  /\ UNCHANGED args
  /\ UNCHANGED registry

\* lines 122 and 149: the string CreatePool(ctx, dbName) hands to pgxpool.New
ConnStringOfCreatePool ==
  /\ result = NoResult
  /\ result' = [fn |-> "CreatePool",
                cs |-> getConnString(args.tok, args.dbName, SentinelMaxConns)]
  /\ UNCHANGED args
  /\ UNCHANGED registry

ConnNext == ConnStringOfCreatePoolWithMaxConns \/ ConnStringOfCreatePool

ConnSpec == ConnInit /\ [][ConnNext]_vars

\* ---- the developer API: CreateImportJob, CreateExportJob, Call, CallMultipart ----

\* the registry of a client no pool call has touched
EmptyRegistry ==
  /\ pools = [n \in Names |-> NoPool]
  /\ hs = [h \in Handles |-> NoHandle]
  /\ created = 0

\* url.JoinPath(base, elem...): only a base that does not parse is an error;
\* the elements are joined by "/", empty ones dropped, and the trailing slash
\* of the last element is kept. A path is its sequence of elements.
UnparsableBase == ":"

JoinPath(base, elem) ==
  [err  |-> base = UnparsableBase,
   path |-> IF base = UnparsableBase THEN <<>>
            ELSE SelectSeq(<<base>> \o elem, LAMBDA e : e # "")]

\* a Go map write: fields[k] = v replaces what fields held under k
Put(fields, k, v) == [x \in DOMAIN fields \cup {k} |-> IF x = k THEN v ELSE fields[x]]

NoParts == [k \in {} |-> ""]

NoPath == <<>>

\* no call of b.apiClient was made
NoRequest == [sent |-> FALSE, method |-> "", path |-> NoPath, fields |-> NoParts,
              files |-> NoParts, body |-> NoParts]

\* what b.apiClient answers: an error, or data that json.Unmarshal accepts or not
ApiAnswers == {"error", "json", "garbage"}

ErrNil == "nil"

\* io.Reader of ImportJobConfig.File
NilReader == "nil reader"
SomeReader == "reader"

\* line 391: the condition CreateImportJob refuses
FileXorURL_Either(config) == ~(config.FileURL = "" /\ config.File = NilReader)

FileXorURL(config) == ~((config.FileURL = "") = (config.File = NilReader))

\* line 409
InferHeaderOptions == {"auto", "first_row", "header"}

\* lines 414-416: the FileURL is written under the key "schema_name"
PutFileURL(fields, v) == Put(fields, "schema_name", v)

\* lines 401-416
ImportFields(tableName, config) ==
  LET f0 == [k \in {"table_name"} |-> tableName]
      f1 == IF config.SchemaName # "" THEN Put(f0, "schema_name", config.SchemaName) ELSE f0
      f2 == IF config.InferHeader # "" THEN Put(f1, "infer_header", config.InferHeader) ELSE f1
  IN  IF config.FileURL # "" THEN PutFileURL(f2, config.FileURL) ELSE f2

\* lines 419-422
ImportFiles(tableName, config) ==
  IF config.File # NilReader
    THEN [k \in {"file"} |-> [filename |-> tableName, file |-> config.File]]
    ELSE NoParts

\* lines 425-434 and 484-493: what the method returns for the client's answer
JobResult(api, failed, request) ==
  CASE api = "error"   -> [err |-> failed, job |-> "nil", request |-> request]
    [] api = "garbage" -> [err |-> "JSON unmarshaling failed", job |-> "zero", request |-> request]
    [] OTHER           -> [err |-> ErrNil, job |-> "job", request |-> request]

Refused(err) == [err |-> err, job |-> "nil", request |-> NoRequest]

\* lines 389-435
CreateImportJob(fullDBName, tableName, config, api) ==
  IF ~FileXorURL(config) THEN Refused("Must provide File XOR FileURL")
  ELSE LET p == JoinPath("db", <<fullDBName, "import/">>) IN
    IF p.err THEN Refused("failed to construct request path")
    ELSE IF config.InferHeader # "" /\ config.InferHeader \notin InferHeaderOptions
      THEN Refused("InferHeader options are 'auto', 'first_row', or 'header'")
    ELSE JobResult(api, "failed to create import job",
                   [sent |-> TRUE, method |-> "POST", path |-> p.path,
                    fields |-> ImportFields(tableName, config),
                    files |-> ImportFiles(tableName, config), body |-> NoParts])

DBNames == {"", "u/db"}

ImportConfigs ==
  [SchemaName : {"", "public", "s1"},
   InferHeader : {"", "auto", "first_row", "header", "yes"},
   FileURL : {"", "https://h/f.csv"},
   File : {NilReader, SomeReader}]

ImportInit ==
  /\ EmptyRegistry
  /\ InitCalls
  /\ args \in [fullDBName : DBNames, tableName : {"t"}, config : ImportConfigs, api : ApiAnswers]
  /\ result = NoResult

CallCreateImportJob ==
  /\ result = NoResult
  /\ result' = CreateImportJob(args.fullDBName, args.tableName, args.config, args.api)
  /\ UNCHANGED args
  /\ UNCHANGED registry

ImportNext == CallCreateImportJob

ImportSpec == ImportInit /\ [][ImportNext]_vars

\* api_types.go lines 110-124: FileFormat.MarshalJSON
supportedFormats == {"csv", "json", "xls", "parquet"}

FileFormatMarshalJSON(f) ==
  LET s == IF f = "" THEN "csv" ELSE f
  IN  [err |-> s \notin supportedFormats, json |-> IF s \in supportedFormats THEN s ELSE ""]

\* api_types.go lines 127-133: json.Marshal of an ExportJobConfig, as the JSON
\* object it denotes; omitempty drops the empty strings
OmitEmpty(obj, k, v) == IF v = "" THEN obj ELSE Put(obj, k, v)

MarshalExportJobConfig(config) ==
  LET ff == FileFormatMarshalJSON(config.ExportFormat)
      o1 == OmitEmpty(NoParts, "query_string", config.QueryString)
      o2 == OmitEmpty(o1, "table_name", config.TableName)
      o3 == OmitEmpty(o2, "schema_name", config.SchemaName)
      o4 == OmitEmpty(o3, "file_name", config.FileName)
  IN  [err |-> ff.err, body |-> IF ff.err THEN NoParts ELSE Put(o4, "export_format", ff.json)]

\* line 461
QueryXorTable(config) == ~((config.QueryString = "") = (config.TableName = ""))

\* lines 467-469: config is a pointer, the caller's struct is written
DefaultSchemaName_Always(config) ==
  IF config.TableName # "" THEN [config EXCEPT !.SchemaName = "public"] ELSE config

DefaultSchemaName(config) ==
  IF config.TableName # "" /\ config.SchemaName = ""
    THEN [config EXCEPT !.SchemaName = "public"]
    ELSE config

\* lines 459-494; config is the caller's struct after the call
CreateExportJob(fullDBName, config, api) ==
  IF ~QueryXorTable(config)
    THEN [config |-> config] @@ Refused("Must provide QueryString XOR TableName")
  ELSE LET c == DefaultSchemaName(config)
           p == JoinPath("db", <<fullDBName, "export/">>)
           m == MarshalExportJobConfig(c)
       IN IF p.err THEN [config |-> c] @@ Refused("failed to construct request path")
          ELSE IF m.err THEN [config |-> c] @@ Refused("failed to marshal export job config")
          ELSE [config |-> c] @@
               JobResult(api, "failed to create export job",
                         [sent |-> TRUE, method |-> "POST", path |-> p.path,
                          fields |-> NoParts, files |-> NoParts, body |-> m.body])

ExportConfigs ==
  [QueryString : {"", "select 1"},
   TableName : {"", "t"},
   SchemaName : {"", "public", "s1"},
   FileName : {"", "out"},
   ExportFormat : {"", "json", "txt"}]

ExportInit ==
  /\ EmptyRegistry
  /\ InitCalls
  /\ args \in [fullDBName : DBNames, config : ExportConfigs, api : ApiAnswers]
  /\ result = NoResult

CallCreateExportJob ==
  /\ result = NoResult
  /\ result' = CreateExportJob(args.fullDBName, args.config, args.api)
  /\ UNCHANGED args
  /\ UNCHANGED registry

ExportNext == CallCreateExportJob

ExportSpec == ExportInit /\ [][ExportNext]_vars

\* api_client.go lines 56 and 144: the first status that is an error
ErrorStatus == 400

IsErrorStatus_Above(status) == status > ErrorStatus

IsErrorStatus(status) == status >= ErrorStatus

NoError == [kind |-> ErrNil, Status |-> 0, Body |-> <<>>]

PlainError(kind) == [kind |-> kind, Status |-> 0, Body |-> <<>>]

\* api_client.go lines 65-67 and part_003 lines 6-9
HandleErrorResponse(status, resBody) == [kind |-> "APIError", Status |-> status, Body |-> resBody]

\* api_client.go lines 46-60 and 134-148: c.HTTPClient.Do, io.ReadAll, the status test.
\* A body read that fails returns what was read before the failure.
DoAndRead(net) ==
  IF ~net.doOK THEN [data |-> <<>>, err |-> PlainError("request failed with error"), panic |-> FALSE]
  ELSE IF ~net.readOK
    THEN [data |-> SubSeq(net.body, 1, Len(net.body) - 1),
          err |-> PlainError("request failed with error"), panic |-> FALSE]
  ELSE IF IsErrorStatus(net.status)
    THEN [data |-> net.body, err |-> HandleErrorResponse(net.status, net.body), panic |-> FALSE]
  ELSE [data |-> net.body, err |-> NoError, panic |-> FALSE]

\* api_client.go lines 33-61: req.Header is used (line 39) before err is looked
\* at (line 41), so a request NewRequest could not build is a nil dereference
Call(net) ==
  IF ~net.requestOK THEN [data |-> <<>>, err |-> NoError, panic |-> TRUE]
  ELSE DoAndRead(net)

\* api_client.go lines 100-149
CallMultipart(net) ==
  IF ~net.formOK THEN [data |-> <<>>, err |-> PlainError("form"), panic |-> FALSE]
  ELSE IF ~net.requestOK
    THEN [data |-> <<>>, err |-> PlainError("failed to create a new request"), panic |-> FALSE]
  ELSE DoAndRead(net)

Statuses == {200, 204, 301, 399, 400, 401, 404, 500, 599}

Bodies == {<<>>, <<1>>, <<1, 2>>}

ClientInit ==
  /\ EmptyRegistry
  /\ InitCalls
  /\ args \in [formOK : BOOLEAN, requestOK : BOOLEAN, doOK : BOOLEAN, readOK : BOOLEAN,
               status : Statuses, body : Bodies]
  /\ result = NoResult

CallCall ==
  /\ result = NoResult
  /\ result' = [fn |-> "Call"] @@ Call(args)
  /\ UNCHANGED args
  /\ UNCHANGED registry

CallCallMultipart ==
  /\ result = NoResult
  /\ result' = [fn |-> "CallMultipart"] @@ CallMultipart(args)
  /\ UNCHANGED args
  /\ UNCHANGED registry

ClientNext == CallCall \/ CallCallMultipart

ClientSpec == ClientInit /\ [][ClientNext]_vars

\* ======================================================================
\* Properties
\* ======================================================================

\* the open handles pgxpool.New produced for key n
OpenFor(n) == {h \in Live : hs[h].db = n /\ ~hs[h].closed}

\* h was just returned by pgxpool.New inside the critical section and line 153
\* is about to store it
BeingStored(h) == \E t \in Threads : pc[t] = "cp_store" /\ newh[t] = h

\* t is about to return from CreatePoolWithMaxConns (results set, lock still held)
CreateReturns(t) == pc[t] = "unlock" /\ op[t] = "CreatePool"

\* t is inside the exclusive critical section of CreatePoolWithMaxConns or ClosePool
InWriteCS(t) ==
  pc[t] \in {"cp_check", "cp_probe", "cp_release", "cp_new", "cp_store",
             "cl_check", "cl_close", "cl_closewait", "cl_delete", "unlock"}

\* t is between the existence check and the map write of CreatePoolWithMaxConns
BetweenCheckAndWrite(t) == pc[t] \in {"cp_probe", "cp_release", "cp_new", "cp_store"}

\* t holds a read hold and is about to read the map in GetPool
InLookup(t) == pc[t] = "gp_lookup"

\* C1: for every database name at most one open handle made by the registry
\* exists, and it is the handle stored in pools under that name (or the one the
\* running create has just been handed by pgxpool.New and stores next); a
\* create never overwrites or leaves behind a handle that is still open.
C1_AtMostOneOpenHandle ==
  \A n \in Names :
    /\ Cardinality(OpenFor(n)) <= 1
    /\ \A h \in OpenFor(n) : pools[n] = h \/ BeingStored(h)

\* C1 witness: a stale handle of a name was replaced; the old one is closed,
\* the new one is open and stored, and the create has returned
C1_Witness ==
  \E n \in Names, h \in Live :
    /\ pools[n] # NoPool /\ pools[n] # h
    /\ ~hs[pools[n]].closed
    /\ hs[h].db = n /\ hs[h].closed
    /\ lock.w = NoThread

\* a concurrent create that found the key present with a handle that was not closed
RacedLoser(t) ==
  /\ CreateReturns(t) /\ raced[t]
  /\ found[t] # NoPool /\ probe[t] # AcqClosed

\* a concurrent create that found the key absent and whose pgxpool.New succeeded
RacedWinner(t) ==
  /\ CreateReturns(t) /\ raced[t]
  /\ found[t] = NoPool /\ newh[t] # NoPool

\* what holds of concurrent creates whatever the losers' error is
RaceOutcome(loserErrs) ==
  /\ \A n \in Names : wins[n] <= 1
  /\ \A t \in Threads :
       /\ RacedLoser(t) =>
            /\ ret[t].err \in loserErrs
            /\ ret[t].pool = NoPool
            /\ pools[dbName[t]] = found[t]
       /\ RacedWinner(t) =>
            /\ ret[t].err = NoErr
            /\ ret[t].pool = newh[t]
            /\ pools[dbName[t]] = newh[t]
            /\ wins[dbName[t]] = 1

\* C2 as claimed: of the concurrent creates for one absent name exactly one
\* returns a handle, every other one returns the duplicate-pool error, and the
\* registry holds the winner's handle.
C2_Original == RaceOutcome({ErrExists})

\* C2 as amended: exactly one returns a handle and the registry holds it; every
\* other one returns an error and no handle: the duplicate-pool error when its
\* probe of the winner's handle succeeds, the indeterminate-state error when
\* that probe fails with an error other than "closed pool".
C2_OneWinner == RaceOutcome({ErrExists, ErrVerify})

\* C2 witness: a create that raced with the winner returns the duplicate-pool error
C2_Witness ==
  \E t \in Threads :
    /\ RacedLoser(t) /\ ret[t].err = ErrExists
    /\ wins[dbName[t]] = 1

\* a create that found the key present with a handle that is still open
\* (an earlier create stored it; no ClosePool, no direct close since)
SecondCreate(t) ==
  /\ CreateReturns(t)
  /\ found[t] # NoPool /\ ~hs[found[t]].closed

\* what holds of the second of two creates whatever its error is
SecondCreateOutcome(errs) ==
  \A t \in Threads :
    SecondCreate(t) =>
      /\ ret[t].err \in errs
      /\ ret[t].pool = NoPool
      /\ nNew[t] = 0 /\ newh[t] = NoPool
      /\ pools[dbName[t]] = found[t]

\* C3 as claimed: a create for a name whose handle is open fails with the
\* duplicate-pool error, calls pgxpool.New not at all and leaves the first
\* handle stored and open.
C3_Original == SecondCreateOutcome({ErrExists})

\* C3 as amended: it fails, with the duplicate-pool error when the probe
\* succeeds and with the indeterminate-state error when the probe fails with an
\* error other than "closed pool"; in both cases no pgxpool.New, and the first
\* handle stays stored and open.
C3_SecondCreateFails == SecondCreateOutcome({ErrExists, ErrVerify})

\* C3 witness: a create issued alone finds the first handle open and returns
\* the duplicate-pool error
C3_Witness ==
  \E t \in Threads :
    SecondCreate(t) /\ ~raced[t] /\ ret[t].err = ErrExists /\ probe[t] = AcqOK

\* C4: when the stored handle was closed directly, so that the probe answers
\* "closed pool", and pgxpool.New succeeds, the create returns a new handle,
\* distinct from the stale one and open, and pools[name] is that new handle.
C4_StaleReplaced ==
  \A t \in Threads :
    (CreateReturns(t) /\ probe[t] = AcqClosed /\ newh[t] # NoPool) =>
      /\ ret[t].err = NoErr
      /\ ret[t].pool = newh[t]
      /\ newh[t] # found[t]
      /\ hs[found[t]].closed
      /\ ~hs[newh[t]].closed
      /\ pools[dbName[t]] = newh[t]

\* C4 witness: a create has replaced a stale entry
C4_Witness ==
  \E t \in Threads :
    CreateReturns(t) /\ probe[t] = AcqClosed /\ newh[t] # NoPool /\ found[t] # NoPool

\* C5: when the probe fails with an error other than "closed pool", the create
\* returns the unable-to-verify error, calls pgxpool.New not at all and leaves
\* every entry of pools as it found it.
C5_IndeterminateProbe ==
  \A t \in Threads :
    (CreateReturns(t) /\ probe[t] = AcqOther) =>
      /\ ret[t].err = ErrVerify
      /\ ret[t].pool = NoPool
      /\ nNew[t] = 0 /\ newh[t] = NoPool
      /\ pools = snap[t]

\* C5 witness: a create whose probe failed with another error, on an open handle
C5_Witness ==
  \E t \in Threads :
    CreateReturns(t) /\ probe[t] = AcqOther /\ ~hs[found[t]].closed

\* t waits inside b.lock.Lock()
WaitsForLock(t) == pc[t] \in {"lock", "wait"}

RECURSIVE SumHeld(_)
\* the read holds taken by the calls of the goroutines in S
SumHeld(S) ==
  IF S = {} THEN 0
  ELSE LET u == CHOOSE x \in S : TRUE IN rheld[u] + SumHeld(S \ {u})

\* the read holds on b.lock that belong to no call still running: nobody is
\* left to give them back
OrphanHolds == lock.active - SumHeld({u \in Threads : InProgress(u)})

\* C6: the registry lock never deadlocks: a create or close waiting for the
\* exclusive lock is never kept out by a hold that no running call owns (such a
\* hold is never released, so the waiting call never returns).
C6_NoLockDeadlock ==
  \A t \in Threads : WaitsForLock(t) => OrphanHolds = 0

\* C7: GetPool is read-only: it returns the stored handle or not-found, leaves
\* pools alone, and when it returns the caller has no hold on the lock left.
C7_GetPoolReadOnly ==
  \A t \in Threads :
    (pc[t] = "ret" /\ op[t] = "GetPool") =>
      /\ ret[t] = LookupResult(pools[dbName[t]])
      /\ rheld[t] = 0

\* C8: a GetPool or Connect issued after ClosePool removed the name, with no
\* successful create for the name since, fails with the not-found error.
C8_NotFoundAfterClose ==
  \A t \in Threads :
    (armed[t] /\ pc[t] = "ret") =>
      /\ ret[t].pool = NoPool /\ ret[t].conn = NoPool
      /\ op[t] = "GetPool" => ret[t].err = ErrNoPool
      /\ op[t] = "Connect" => ret[t].err = ErrConnNoPool

\* C8 witness: a lookup issued after a successful ClosePool returns
C8_Witness ==
  \E t \in Threads : armed[t] /\ pc[t] = "ret" /\ gone[dbName[t]]

\* one step keeps the connections leased from h: the count drops only by one
\* conn.Release() at a time, which leaves the handle's closed flag alone, and
\* never rises once h is closed
LeasesKept(h) ==
  /\ hs'[h].leased < hs[h].leased =>
       /\ hs'[h].leased = hs[h].leased - 1
       /\ hs'[h].closed = hs[h].closed
  /\ hs[h].closed => hs'[h].leased <= hs[h].leased

C10_MutualExclusion ==
  /\ \A t, u \in Threads :
       t # u => /\ ~(InWriteCS(t) /\ InWriteCS(u))
                /\ ~(InWriteCS(t) /\ InLookup(u))
  /\ \A t \in Threads : BetweenCheckAndWrite(t) => pools = snap[t]

\* C10 witness: one goroutine is about to write the map while a second create
\* or close waits in Lock() or a lookup sleeps in RLock()
C10_Witness ==
  \E t, u \in Threads :
    /\ t # u
    /\ pc[t] = "cp_store"
    /\ pc[u] \in {"lock", "gp_rwait"}

\* t is about to return from ClosePool (result set, lock still held)
CloseReturns(t) == pc[t] = "unlock" /\ op[t] = "ClosePool"

\* C11: when pgxpool.New fails, the create returns the creation error (which
\* wraps the establishment error and names the database) and no handle, and
\* pools is as the call found it: no entry installed where none was, a stale
\* entry found by the probe neither replaced nor removed.
C11_EstablishFailureKeepsPools ==
  \A t \in Threads :
    (CreateReturns(t) /\ nNew[t] = 1 /\ newh[t] = NoPool) =>
      /\ ret[t] = [NoRet EXCEPT !.err = ErrCreate]
      /\ pools = snap[t]
      /\ pools[dbName[t]] = found[t]
      /\ found[t] # NoPool => hs[found[t]].closed

\* C11 witness: the establishment failed for a name whose stale entry the probe
\* had found closed
C11_Witness ==
  \E t \in Threads :
    /\ CreateReturns(t) /\ nNew[t] = 1 /\ newh[t] = NoPool
    /\ found[t] # NoPool /\ probe[t] = AcqClosed

\* a step of ClosePool's own code inside the critical section
ClosePoolStep(t) ==
  /\ op[t] = "ClosePool"
  /\ pc[t] \in {"cl_check", "cl_close", "cl_closewait", "cl_delete"}
  /\ pc'[t] # pc[t]

\* C12: ClosePool(name) with name present closes the handle stored under name,
\* removes that entry and returns success; no step of it touches the entry or
\* the handle of another name.
C12_CloseRemovesExactlyOne ==
  /\ [](\A t \in Threads :
          (CloseReturns(t) /\ snap[t][dbName[t]] # NoPool) =>
            /\ ret[t].err = NoErr
            /\ found[t] = snap[t][dbName[t]]
            /\ hs[found[t]].closed
            /\ pools = [snap[t] EXCEPT ![dbName[t]] = NoPool])
  /\ [][\A t \in Threads :
          ClosePoolStep(t) =>
            /\ \A n \in Names \ {dbName[t]} : pools'[n] = pools[n]
            /\ \A h \in Handles \ {pools[dbName[t]]} : hs'[h] = hs[h]]_vars

\* C12 witness: a ClosePool that found its name present returns while another
\* name has an open handle stored
C12_Witness ==
  \E t \in Threads, n \in Names :
    /\ CloseReturns(t) /\ found[t] # NoPool
    /\ n # dbName[t] /\ pools[n] # NoPool /\ ~hs[pools[n]].closed

\* C13: ClosePool(name) with name absent returns the no-open-pool error, closes
\* no handle and leaves pools alone; a ClosePool issued after a ClosePool
\* removed the name, with no create for it since, returns that error.
C13_CloseAbsentFails ==
  /\ [](\A t \in Threads :
          /\ (CloseReturns(t) /\ snap[t][dbName[t]] = NoPool) =>
               /\ ret[t].err = ErrNoOpen
               /\ pools = snap[t]
          /\ (CloseReturns(t) /\ armed[t]) =>
               /\ ret[t].err = ErrNoOpen
               /\ found[t] = NoPool)
  /\ [][\A t \in Threads :
          (ClosePoolStep(t) /\ pc[t] = "cl_check" /\ pools[dbName[t]] = NoPool) =>
            /\ pc'[t] = "unlock"
            /\ hs' = hs /\ pools' = pools]_vars

\* C13 witness: the second of two ClosePool calls for a name returns the error
C13_Witness ==
  \E t \in Threads :
    CloseReturns(t) /\ armed[t] /\ gone[dbName[t]] /\ ret[t].err = ErrNoOpen

\* C14: the branch the staleness probe can take depends on the stored handle
\* alone, not on the caller's ctx: whether or not ctx is cancelled, the probe
\* of a closed handle can only answer "closed pool", that of an open handle
\* with a free connection can succeed or fail otherwise.
C14_ProbeIgnoresCtx ==
  \A t \in Threads :
    pc[t] = "cp_probe" =>
      \A o \in {AcqOK, AcqClosed, AcqOther} :
        (ENABLED (CP_Probe(t) /\ probe'[t] = o))
          <=> o \in AcquireOutcomes(found[t], CtxBackground)

\* C14 witness: the probe of a create whose ctx was cancelled got a connection
C14_Witness ==
  \E t \in Threads : pc[t] = "cp_release" /\ ctx[t] = CtxDone

\* C15: closing through the registry and closing the handle directly work in
\* either order: ClosePool on a name whose handle was closed directly returns
\* success and removes the entry; a direct close of a handle the registry has
\* closed changes neither pools nor the lock nor any handle's state.
C15_CloseEitherOrder ==
  /\ [](\A t \in Threads :
          (CloseReturns(t) /\ wasClosed[t]) =>
            /\ ret[t].err = NoErr
            /\ found[t] # NoPool
            /\ pools[dbName[t]] = NoPool)
  /\ [][\A h \in Handles :
          (hs[h].direct = "no" /\ hs'[h].direct = "after") =>
            /\ pools' = pools /\ lock' = lock
            /\ hs' = [hs EXCEPT ![h].direct = "after"]]_vars

\* C15 witness: a ClosePool returns for a handle that had been closed directly,
\* and another handle was closed directly after the registry had closed it
C15_Witness ==
  \E t \in Threads, h \in Live :
    /\ CloseReturns(t) /\ wasClosed[t]
    /\ h # found[t] /\ hs[h].direct = "after"

\* t is about to return from Connect
ConnectReturns(t) == pc[t] = "ret" /\ op[t] = "Connect"

\* C16: Connect returns the wrapped not-found error without any acquire when
\* the name has no entry; otherwise it makes exactly one acquire on the handle
\* GetPool returned, with the caller's ctx, and returns that connection or the
\* wrapped acquire error; it never retries and never changes pools.
C16_ConnectOneAcquire ==
  /\ [](\A t \in Threads :
          /\ nAcq[t] <= 1
          /\ ConnectReturns(t) =>
               IF found[t] = NoPool
                 THEN /\ ret[t] = [NoRet EXCEPT !.err = ErrConnNoPool]
                      /\ nAcq[t] = 0
                 ELSE /\ nAcq[t] = 1
                      /\ \/ ret[t] = [NoRet EXCEPT !.conn = found[t]]
                         \/ ret[t] = [NoRet EXCEPT !.err = ErrConnAcquire]
                      /\ ctx[t] = CtxDone => ret[t].err = ErrConnAcquire)
  /\ [][\A t \in Threads :
          (op[t] = "Connect" /\ pc'[t] # pc[t]) => pools' = pools]_vars

\* C16 witness: one Connect returns a connection, another one, whose ctx was
\* cancelled, returns the acquire error
C16_Witness ==
  \E t, u \in Threads :
    /\ ConnectReturns(t) /\ ret[t].conn # NoPool
    /\ ConnectReturns(u) /\ ctx[u] = CtxDone /\ found[u] # NoPool

\* C17: the handle a successful create returns is the one stored under the
\* name, and a GetPool issued while a handle is stored, with no ClosePool and
\* no replacing create for the name getting through meanwhile, returns it.
C17_CreateGetRoundTrip ==
  \A t \in Threads :
    /\ (CreateReturns(t) /\ ret[t].err = NoErr) =>
         /\ ret[t].pool # NoPool
         /\ pools[dbName[t]] = ret[t].pool
    /\ (pc[t] = "ret" /\ op[t] = "GetPool" /\ exp[t] # NoPool) =>
         ret[t] = [NoRet EXCEPT !.pool = exp[t]]

\* C17 witness: a GetPool issued after a create stored a handle returns
C17_Witness ==
  \E t \in Threads :
    pc[t] = "ret" /\ op[t] = "GetPool" /\ exp[t] # NoPool /\ ~hs[exp[t]].closed

\* C19: no lookup is asleep in RLock() behind a writer that itself waits for a
\* read hold of that same lookup (from such a state neither call ever returns).
C19_NoLookupStuck ==
  \A t, u \in Threads :
    ~(pc[t] = "gp_dwait" /\ rheld[t] > 0 /\ lock.w = u /\ pc[u] = "wait")

\* C20: a create calls pgxpool.New at most once, and only when no entry
\* existed (no probe made) or the probe of the entry answered "closed pool";
\* a create ending in the duplicate-pool or the indeterminate-state error has
\* not called it.
C20_EstablishAfterDecision ==
  \A t \in Threads :
    /\ nNew[t] <= 1
    /\ found[t] = NoPool => probe[t] = NotProbed
    /\ nNew[t] = 1 =>
         \/ found[t] = NoPool /\ probe[t] = NotProbed
         \/ found[t] # NoPool /\ probe[t] = AcqClosed
    /\ (CreateReturns(t) /\ ret[t].err \in {ErrExists, ErrVerify}) =>
         /\ nNew[t] = 0 /\ newh[t] = NoPool
         /\ probe[t] \in {AcqOK, AcqOther}

\* C20 witness: pgxpool.New has just been called after the probe answered
\* "closed pool"
C20_Witness ==
  \E t \in Threads : pc[t] = "cp_store" /\ nNew[t] = 1 /\ probe[t] = AcqClosed

\* C18: for maxConns # 0 the connection string of CreatePoolWithMaxConns has
\* the parameter pool_max_conns, once, with maxConns as its value; for the
\* sentinel 0, and for CreatePool, it has no such parameter; the string is the
\* same for the same (accessToken, name, maxConns) whatever pools holds, and
\* CreatePool's string is that of CreatePoolWithMaxConns with 0.
C18_MaxConnsPassThrough ==
  result # NoResult =>
    LET mc == ParamValues(result.cs, "pool_max_conns")
        m == IF result.fn = "CreatePool" THEN SentinelMaxConns ELSE args.maxConns
    IN /\ m # SentinelMaxConns =>
            /\ Len(mc) = 1
            /\ mc[1] = FormatInt(args.maxConns)
            /\ ParseInt(mc[1]) = args.maxConns
       /\ m = SentinelMaxConns => mc = <<>>
       /\ ParamValues(result.cs, "dbname") = <<args.dbName>>
       /\ ParamValues(result.cs, "password") = <<args.tok>>
       /\ result.cs = getConnString(args.tok, args.dbName, m)

\* C18 witness: a two-digit maxConns went into the string, on a registry that
\* holds a pool
C18_Witness ==
  /\ result # NoResult
  /\ result.fn = "CreatePoolWithMaxConns" /\ args.maxConns >= 10
  /\ pools[1] # NoPool

\* the probe connections of h not yet released
ProbesInFlight(h) == Cardinality({t \in Threads : pc[t] = "cp_release" /\ found[t] = h})

\* C21: the probe leaks no connection: the connections leased from a handle
\* are those handed to callers plus the probe connection of a create that is
\* about to release it, and when a create returns the duplicate-pool error
\* the handle it probed has exactly its callers' connections leased.
C21_ProbeLeaksNothing ==
  /\ \A h \in Handles : hs[h].leased = hs[h].out + ProbesInFlight(h)
  /\ \A t \in Threads :
       (CreateReturns(t) /\ ret[t].err = ErrExists) =>
         /\ probe[t] = AcqOK
         /\ hs[found[t]].leased = hs[found[t]].out

\* C21 witness: a create whose probe got a connection returns the
\* duplicate-pool error, and a caller holds a connection of that handle
C21_Witness ==
  \E t \in Threads :
    /\ CreateReturns(t) /\ ret[t].err = ErrExists
    /\ hs[found[t]].out = 1

\* C22: a create probing an open handle is never left waiting for a
\* connection (the probe's Acquire has an outcome whatever callers hold).
C22_ProbeNeverWaits ==
  \A t \in Threads :
    (pc[t] = "cp_probe" /\ ~hs[found[t]].closed) =>
      AcquireOutcomes(found[t], ProbeCtx(t)) # {}

\* C23: ClosePool is never left waiting inside pool.Close() for leased
\* connections to come back.
C23_CloseNeverWaits ==
  \A t \in Threads : pc[t] = "cl_closewait" => PoolCloseReturns(found[t])

NameUntouched(n) ==
  /\ pools'[n] = pools[n]
  /\ \A h \in Live :
       hs[h].db = n => /\ hs'[h].closed = hs[h].closed
                       /\ hs'[h].leased = hs[h].leased

\* C25: no step of a CreatePool, CreatePoolWithMaxConns, GetPool, Connect or
\* ClosePool call on one name changes the entry of another name, or the
\* open/closed state or the leased connections of another name's handle.
C25_NamesIndependent ==
  [][\A t \in Threads :
       (InProgress(t) /\ pc'[t] # pc[t]) =>
         \A n \in Names \ {dbName[t]} : NameUntouched(n)]_vars

\* C25 witness: ClosePool has closed the handle of one name while the handle
\* of another name is open with a connection leased
C25_Witness ==
  \E t \in Threads, h \in Live :
    /\ pc[t] = "cl_delete"
    /\ hs[h].db # dbName[t] /\ pools[hs[h].db] = h
    /\ ~hs[h].closed /\ hs[h].leased = 1


\* ---- the developer API ----

ImportReturned == result # NoResult

InferHeaderValid(v) == v = "" \/ v = "auto" \/ v = "first_row" \/ v = "header"

ExactlyOneOf(a, b) == (a /\ ~b) \/ (b /\ ~a)

ImportMayCall ==
  /\ ExactlyOneOf(args.config.File # NilReader, args.config.FileURL # "")
  /\ InferHeaderValid(args.config.InferHeader)

\* C26: CreateImportJob calls the API only when exactly one of config.File and
\* config.FileURL is provided and config.InferHeader is empty or one of
\* 'auto', 'first_row', 'header'; in every other case it returns an error and
\* no request was issued.
C26_ImportCallsOnlyWhenValid ==
  ImportReturned =>
    /\ result.request.sent => ImportMayCall
    /\ ~ImportMayCall => (result.err # ErrNil /\ result.request = NoRequest)

\* C26 witness: both a file and a URL were given with a valid InferHeader, and
\* CreateImportJob has returned
C26_Witness ==
  /\ ImportReturned
  /\ args.config.File # NilReader
  /\ args.config.FileURL # ""
  /\ args.config.InferHeader = "auto"
  /\ result.err # ErrNil

HasField(k) == k \in DOMAIN result.request.fields

\* C28: in the form CreateImportJob sends, schema_name carries config.SchemaName
\* whenever SchemaName is non-empty and is absent otherwise, and a non-empty
\* config.FileURL is sent under file_url.
C28_FieldsUnderOwnKeys ==
  (ImportReturned /\ result.request.sent) =>
    /\ args.config.SchemaName # "" =>
         (HasField("schema_name") /\ result.request.fields["schema_name"] = args.config.SchemaName)
    /\ args.config.SchemaName = "" => ~HasField("schema_name")
    /\ args.config.FileURL # "" =>
         (HasField("file_url") /\ result.request.fields["file_url"] = args.config.FileURL)

ExportReturned == result # NoResult

ExportMayCall == ExactlyOneOf(args.config.QueryString # "", args.config.TableName # "")

InBody(k) == k \in DOMAIN result.request.body

\* C27: CreateExportJob calls the API only when exactly one of
\* config.QueryString and config.TableName is non-empty, otherwise it returns
\* an error and no request was issued; with a TableName and an empty SchemaName
\* the request carries schema_name 'public'; a non-empty SchemaName of the
\* caller is sent, and left in the caller's config, as it was given.
C27_ExportCallAndSchema ==
  ExportReturned =>
    /\ result.request.sent => ExportMayCall
    /\ ~ExportMayCall => (result.err # ErrNil /\ result.request = NoRequest)
    /\ (result.request.sent /\ args.config.TableName # "" /\ args.config.SchemaName = "") =>
         (InBody("schema_name") /\ result.request.body["schema_name"] = "public")
    /\ args.config.SchemaName # "" =>
         /\ result.config.SchemaName = args.config.SchemaName
         /\ result.request.sent =>
              (InBody("schema_name") /\ result.request.body["schema_name"] = args.config.SchemaName)

\* C27 witness: a request went out for a table in the caller's schema s1
C27_Witness ==
  /\ ExportReturned
  /\ result.request.sent
  /\ args.config.TableName # ""
  /\ args.config.SchemaName = "s1"

ClientReturned == result # NoResult /\ ~result.panic

\* the request was built and handed to c.HTTPClient.Do
RequestIssued == args.requestOK /\ (result.fn = "CallMultipart" => args.formOK)

Completed == RequestIssued /\ args.doOK /\ args.readOK

\* C29: for a completed response with status >= 400 Call and CallMultipart
\* return an APIError with the response's status and body; for a completed
\* response with status < 400 they return a nil error and the response body;
\* a transport or body-read failure gives a 'request failed' error, never an
\* APIError.
C29_StatusDecidesError ==
  ClientReturned =>
    /\ (Completed /\ args.status >= 400) =>
         /\ result.err.kind = "APIError"
         /\ result.err.Status = args.status
         /\ result.err.Body = args.body
    /\ (Completed /\ args.status < 400) =>
         /\ result.err = NoError
         /\ result.data = args.body
    /\ (RequestIssued /\ ~(args.doOK /\ args.readOK)) =>
         result.err.kind = "request failed with error"

\* C29 witness: CallMultipart got a completed response with status 400 and a body
C29_Witness ==
  /\ ClientReturned
  /\ result.fn = "CallMultipart"
  /\ Completed
  /\ args.status = 400
  /\ args.body # <<>>

====
